---------------------------- MODULE Spec2Model ----------------------------
(***************************************************************************)
(* Model of the ctags index of Serpentarium (src/ctags.py, class CTags):   *)
(* load_file parses a tab-delimited tag file into the resident list _tags, *)
(* get_definitions and autocomplete answer queries from that list.         *)
(*                                                                         *)
(* A Python byte string is a sequence of one-character strings; the byte   *)
(* 0xFF, which no UTF-8 text contains, is the element "xFF".  Python's     *)
(* None is NoneValue where a string may stand, and NoneTags where the list *)
(* _tags may stand.  A raised exception is named by its class.             *)
(*                                                                         *)
(* The plugin around the index (src/serpentarium.py) is modelled in two    *)
(* further specifications over the same variables: SpecRebuild, the        *)
(* threaded rebuild of the tags and the handoff of the new index to the    *)
(* global ctags, and SpecJumps, the history of jumps to definitions.       *)
(***************************************************************************)
EXTENDS Integers, Sequences, FiniteSets, TLC

VARIABLES
    file,        \* the tag file on disk: [exists, lines]
    _tags,       \* CTags._tags: NoneTags or List(records)
    pc,          \* position of the load_file call in flight: idle, open, parse
    all_tags,    \* load_file's local all_tags (the stripped lines read)
    pos,         \* number of lines of all_tags the for loop has consumed
    tags,        \* load_file's local list tags
    result,      \* how the last load_file call ended: "", False, None or an exception
    query        \* the last query made: [op, arg, out]

vars == <<file, _tags, pc, all_tags, pos, tags, result, query>>

----------------------------------------------------------------------------
(* Bounds of the model *)

\* longest tag file drawn from the whole line catalogue
MaxLines == 2

\* longest tag file drawn from the well-formed lines alone
MaxTagLines == 3

----------------------------------------------------------------------------
(* Python values *)

TAB == "\t"

NoneValue == <<"None">>

NoneTags == [none |-> TRUE, items |-> <<>>]

List(xs) == [none |-> FALSE, items |-> xs]

Whitespace == {" ", "\t", "\n", "\r", "\f"}

DigitChars == <<"0", "1", "2", "3", "4", "5", "6", "7", "8", "9">>

Digits == {DigitChars[i] : i \in 1..10}

\* code point of a character, for the order list.sort() uses on names
Ord(c) ==
    CASE c = "\t" -> 9
      [] c = " " -> 32
      [] c = "!" -> 33
      [] c \in Digits -> 48 + (CHOOSE d \in 0..9 : DigitChars[d + 1] = c)
      [] c = ":" -> 58
      [] c = "_" -> 95
      [] c = "a" -> 97
      [] c = "b" -> 98
      [] c = "c" -> 99
      [] c = "d" -> 100
      [] c = "e" -> 101
      [] c = "f" -> 102
      [] c = "i" -> 105
      [] c = "k" -> 107
      [] c = "l" -> 108
      [] c = "n" -> 110
      [] c = "x" -> 120
      [] OTHER -> 255

\* s[from:] of Python, from counted from 0
Tail_(s, from) == SubSeq(s, from + 1, Len(s))

\* str.strip(): leading and trailing whitespace removed
RECURSIVE lstrip(_)
lstrip(s) ==
    IF s # <<>> /\ Head(s) \in Whitespace THEN lstrip(Tail(s)) ELSE s

RECURSIVE rstrip(_)
rstrip(s) ==
    IF s # <<>> /\ s[Len(s)] \in Whitespace
    THEN rstrip(SubSeq(s, 1, Len(s) - 1))
    ELSE s

strip(s) == rstrip(lstrip(s))

\* str.startswith(prefix)
startswith(s, prefix) ==
    /\ Len(prefix) <= Len(s)
    /\ SubSeq(s, 1, Len(prefix)) = prefix

\* sep in s, for a one-character sep
Contains(s, sep) == \E i \in 1..Len(s) : s[i] = sep

\* index of the first sep in s (0 when there is none)
Find(s, sep) ==
    IF Contains(s, sep)
    THEN CHOOSE i \in 1..Len(s) : s[i] = sep /\ \A j \in 1..(i - 1) : s[j] # sep
    ELSE 0

\* str.split(sep, maxsplit); maxsplit = -1 splits at every sep
RECURSIVE split(_, _, _)
split(s, sep, maxsplit) ==
    IF maxsplit = 0 \/ ~Contains(s, sep)
    THEN <<s>>
    ELSE LET i == Find(s, sep)
         IN  <<SubSeq(s, 1, i - 1)>> \o split(Tail_(s, i), sep, maxsplit - 1)

\* value of a non-empty string of decimal digits
RECURSIVE DigitsValue(_)
DigitsValue(s) ==
    IF s = <<>> THEN 0
    ELSE 10 * DigitsValue(SubSeq(s, 1, Len(s) - 1)) + (Ord(s[Len(s)]) - 48)

\* int(v): [raised, value]; None raises TypeError, a string that is not an
\* optionally signed decimal numeral (whitespace around it allowed) ValueError
int(v) ==
    IF v = NoneValue THEN [raised |-> "TypeError", value |-> 0]
    ELSE LET t == strip(v)
             signed == t # <<>> /\ Head(t) \in {"+", "-"}
             d == IF signed THEN Tail(t) ELSE t
         IN  IF d # <<>> /\ \A i \in 1..Len(d) : d[i] \in Digits
             THEN [raised |-> "",
                   value |-> IF signed /\ Head(t) = "-"
                             THEN 0 - DigitsValue(d) ELSE DigitsValue(d)]
             ELSE [raised |-> "ValueError", value |-> 0]

\* str.decode('utf-8'): [raised, value]; ASCII bytes are their own code
\* points, the byte 0xFF is never valid
decode(s) ==
    IF \E i \in 1..Len(s) : s[i] = "xFF"
    THEN [raised |-> "UnicodeDecodeError", value |-> <<>>]
    ELSE [raised |-> "", value |-> s]

\* d[key] = value
setitem(d, key, value) ==
    [k \in DOMAIN d \cup {key} |-> IF k = key THEN value ELSE d[k]]

EmptyDict == [k \in {} |-> NoneValue]


----------------------------------------------------------------------------
(* load_file: one line of the tag file *)

\* the loop body giving "file:" the absent marker like any other empty value
parse_field_no_file(fields, field, tagfile) ==
    IF Contains(field, ":")
    THEN LET kv == split(field, ":", 1)
         IN  setitem(fields, kv[1], IF kv[2] # <<>> THEN kv[2] ELSE NoneValue)
    ELSE IF Len(field) = 1
    THEN setitem(fields, <<"k", "i", "n", "d">>, field)
    ELSE fields

\* the body of "for field in tagfields.split('\t')": the dictionary after one
\* field token
parse_field(fields, field, tagfile) ==
    IF Contains(field, ":")
    THEN LET kv == split(field, ":", 1)
             field_name == kv[1]
             field_value ==
                 IF kv[2] # <<>> THEN kv[2]
                 ELSE IF field_name = <<"f", "i", "l", "e">> THEN tagfile
                 ELSE NoneValue
         IN  setitem(fields, field_name, field_value)
    ELSE IF Len(field) = 1
    THEN setitem(fields, <<"k", "i", "n", "d">>, field)
    ELSE fields  \* "Can't parse line" is printed, the token is skipped

\* the for loop over the field tokens, from the dictionary built so far
RECURSIVE parse_fields_loop(_, _, _)
parse_fields_loop(fields, tokens, tagfile) ==
    IF tokens = <<>> THEN fields
    ELSE parse_fields_loop(parse_field(fields, Head(tokens), tagfile),
                           Tail(tokens), tagfile)

\* "if tagfields: ... else: tagfields = {}"
parse_fields(tagfields, tagfile) ==
    IF tagfields # <<>>
    THEN parse_fields_loop(EmptyDict, split(tagfields, TAB, -1), tagfile)
    ELSE EmptyDict

\* "if not tag_line or tag_line.startswith('!_'): continue"
is_skipped(tag_line) ==
    tag_line = <<>> \/ startswith(tag_line, <<"!", "_">>)

\* one iteration of the loop over all_tags on a line that is not skipped:
\* [raised, tag]; the unpacking of the split raises ValueError unless it
\* yields 4 parts, the tuple is built left to right
parse_line(tag_line) ==
    LET parts == split(tag_line, TAB, 3)
        NoTag == <<>>
    IN  IF Len(parts) # 4 THEN [raised |-> "ValueError", tag |-> NoTag]
        ELSE LET tagname == parts[1]
                 tagfile == parts[2]
                 tagaddress == parts[3]
                 tagfields == parse_fields(parts[4], tagfile)
                 name == decode(tagname)
                 fname == decode(tagfile)
                 line == IF <<"l", "i", "n", "e">> \in DOMAIN tagfields
                         THEN int(tagfields[<<"l", "i", "n", "e">>])
                         ELSE [raised |-> "", value |-> 0]
                 address == decode(tagaddress)
             IN  IF name.raised # "" THEN [raised |-> name.raised, tag |-> NoTag]
                 ELSE IF fname.raised # "" THEN [raised |-> fname.raised, tag |-> NoTag]
                 ELSE IF line.raised # "" THEN [raised |-> line.raised, tag |-> NoTag]
                 ELSE IF address.raised # "" THEN [raised |-> address.raised, tag |-> NoTag]
                 ELSE [raised |-> "",
                       tag |-> <<name.value, fname.value, line.value,
                                 address.value, tagfields>>]

\* "tuple(l.strip() for l in open(tags_file, 'r'))"
RECURSIVE strip_all(_)
strip_all(lines) ==
    IF lines = <<>> THEN <<>>
    ELSE <<strip(Head(lines))>> \o strip_all(Tail(lines))

----------------------------------------------------------------------------
(* The queries *)

\* get_definitions breaking at the first match instead of after the run
RECURSIVE definitions_loop_first(_, _, _)
definitions_loop_first(ts, symbol, found) ==
    IF ts = <<>> THEN <<>>
    ELSE IF Head(ts)[1] = symbol THEN <<Head(ts)>>
    ELSE definitions_loop_first(Tail(ts), symbol, FALSE)

\* the loop of get_definitions over self._tags, found being its flag
RECURSIVE definitions_loop(_, _, _)
definitions_loop(ts, symbol, found) ==
    IF ts = <<>> THEN <<>>
    ELSE IF Head(ts)[1] = symbol
    THEN <<Head(ts)>> \o definitions_loop(Tail(ts), symbol, TRUE)
    ELSE IF found THEN <<>>
    ELSE definitions_loop(Tail(ts), symbol, FALSE)

\* get_definitions(symbol) on the list t: [raised, ret]; with symbol None the
\* list itself is returned, otherwise iterating over None raises TypeError
get_definitions(t, symbol) ==
    IF symbol = NoneValue THEN [raised |-> "", ret |-> t]
    ELSE IF t.none THEN [raised |-> "TypeError", ret |-> NoneTags]
    ELSE [raised |-> "", ret |-> List(definitions_loop(t.items, symbol, FALSE))]

\* the loop of autocomplete over self._tags: the names collected
RECURSIVE completions_loop(_, _, _)
completions_loop(ts, prefix, found) ==
    IF ts = <<>> THEN <<>>
    ELSE IF startswith(Head(ts)[1], prefix)
    THEN <<Head(ts)[1]>> \o completions_loop(Tail(ts), prefix, TRUE)
    ELSE IF found THEN <<>>
    ELSE completions_loop(Tail(ts), prefix, FALSE)

\* a < b in the order of unicode strings (by code point, a proper prefix first)
RECURSIVE StrLess(_, _)
StrLess(a, b) ==
    IF b = <<>> THEN FALSE
    ELSE IF a = <<>> THEN TRUE
    ELSE IF Ord(Head(a)) # Ord(Head(b)) THEN Ord(Head(a)) < Ord(Head(b))
    ELSE StrLess(Tail(a), Tail(b))

\* tuple comparison of two (name, name) pairs
PairLess(p, q) ==
    StrLess(p[1], q[1]) \/ (p[1] = q[1] /\ StrLess(p[2], q[2]))

\* "completions = list(set(completions))"
set_of(xs) == {xs[i] : i \in 1..Len(xs)}

\* "completions.sort()" on a list holding the elements of S
RECURSIVE sort(_)
sort(S) ==
    IF S = {} THEN <<>>
    ELSE LET m == CHOOSE x \in S : \A y \in S \ {x} : PairLess(x, y)
         IN  <<m>> \o sort(S \ {m})

\* "[(i, i) for sublist in completions for i in sublist]"
pairs_of(names) == [i \in 1..Len(names) |-> <<names[i], names[i]>>]

\* autocomplete without "list(set(completions))" and "completions.sort()"
autocomplete_unsorted(t, prefix) ==
    IF t.none THEN [raised |-> "TypeError", ret |-> NoneTags]
    ELSE [raised |-> "",
          ret |-> List(pairs_of(completions_loop(t.items, prefix, FALSE)))]

\* autocomplete(prefix) on the list t: [raised, ret]
autocomplete(t, prefix) ==
    IF t.none THEN [raised |-> "TypeError", ret |-> NoneTags]
    ELSE [raised |-> "",
          ret |-> List(sort(set_of(pairs_of(
                      completions_loop(t.items, prefix, FALSE)))))]


----------------------------------------------------------------------------
(* The tag files and the query arguments the model draws from *)

\* parts joined by tabs and ended by the newline a line read from a file has
RECURSIVE JoinTab(_)
JoinTab(parts) ==
    IF Len(parts) = 1 THEN Head(parts) \o <<"\n">>
    ELSE Head(parts) \o <<TAB>> \o JoinTab(Tail(parts))

W_line == <<"l", "i", "n", "e">>

W_kind == <<"k", "i", "n", "d">>

W_file == <<"f", "i", "l", "e">>

\* a  f  x  line:42  kind:f
LineA == JoinTab(<<(<<"a">>), (<<"f">>), (<<"x">>),
                   W_line \o <<":", "4", "2">>, W_kind \o <<":", "f">>>>)

\* ab  f  x  file:  bad  k
LineAB == JoinTab(<<(<<"a", "b">>), (<<"f">>), (<<"x">>),
                    W_file \o <<":">>, (<<"b", "a", "d">>), (<<"k">>)>>)

\* b  f  x  n:  kind:a:b  (empty token)  c
LineB == JoinTab(<<(<<"b">>), (<<"f">>), (<<"x">>), (<<"n", ":">>),
                   W_kind \o <<":", "a", ":", "b">>, (<<>>), (<<"c">>)>>)

\* a whitespace-only line
LineBlank == <<" ", "\n">>

\* !_a
LineComment == <<"!", "_", "a", "\n">>

\* a  f  x: three parts
LineShort == JoinTab(<<(<<"a">>), (<<"f">>), (<<"x">>)>>)

\* b  f  x  line:
LineNoValue == JoinTab(<<(<<"b">>), (<<"f">>), (<<"x">>), W_line \o <<":">>>>)

\* a  f  x  line:x
LineNaN == JoinTab(<<(<<"a">>), (<<"f">>), (<<"x">>), W_line \o <<":", "x">>>>)

\* a  f  x  bad
LineBadToken == JoinTab(<<(<<"a">>), (<<"f">>), (<<"x">>), (<<"b", "a", "d">>)>>)

\* a name that is not UTF-8:  0xFF  f  x  k
LineNotUtf8 == JoinTab(<<(<<"xFF">>), (<<"f">>), (<<"x">>), (<<"k">>)>>)

\* lines every part of load_file accepts
TagLines == {LineA, LineBadToken, LineAB, LineB}

Catalogue ==
    TagLines \cup {LineBlank, LineComment, LineShort, LineNoValue, LineNaN,
                   LineNotUtf8}

\* the sequences over S of length at most n
SeqsUpTo(S, n) == UNION {[1..k -> S] : k \in 0..n}

Files == SeqsUpTo(Catalogue, MaxLines) \cup SeqsUpTo(TagLines, MaxTagLines)

Symbols == {NoneValue, <<"a">>, <<"b">>, <<"c">>}

Prefixes == {<<>>, <<"a">>, <<"a", "b">>, <<"c">>}

NoQuery == [op |-> "", arg |-> <<>>, raised |-> "", ret |-> NoneTags]

----------------------------------------------------------------------------
(* The plugin (src/serpentarium.py): the rebuild of the tags in a worker   *)
(* thread and the jump history.  Its state stands still while the index    *)
(* alone is examined.                                                      *)

VARIABLES
    running,     \* build_tags.running, the flag of the threaded wrapper
    worker,      \* the threads the wrapper started: thread |-> [stage, silent, raised]
    requests,    \* number of calls of the wrapped build_tags made so far
    timeouts,    \* the callbacks given to sublime.set_timeout, not yet run
    ctags,       \* the module's global ctags: NoCTags or an index
    status,      \* the last sublime.status_message
    history,     \* the module's global history
    cursor,      \* where the view's selection is: [file, row, col], from 0
    jump,        \* the jump commands run: [n, cmd, choose], n their number
    pushes,      \* number of history.append made
    pops         \* number of history.pop made

buildVars == <<running, worker, requests, timeouts, ctags, status>>

jumpVars == <<history, cursor, jump, pushes, pops>>

allVars == <<vars, buildVars, jumpVars>>

\* most calls of the wrapped build_tags in one behaviour
MaxRequests == 3

\* most jumps to a definition in one behaviour
MaxJumps == 3

Threads == 1..MaxRequests

\* "ctags = None"
NoCTags == [isNone |-> TRUE, tags |-> NoneTags]

NoThread == [stage |-> "none", silent |-> FALSE, raised |-> FALSE]

NoJump == [n |-> 0, cmd |-> "", choose |-> 0]

\* the module as imported: "ctags = None", and "func.running = 0" set by the
\* decorator; no thread started, no callback waiting
InitBuild ==
    /\ running = 0
    /\ worker = [t \in Threads |-> NoThread]
    /\ requests = 0
    /\ timeouts = <<>>
    /\ ctags = NoCTags
    /\ status = ""

\* the module as imported: "history = []"; the view is at the top of a file
InitJump ==
    /\ history = <<>>
    /\ cursor = [file |-> "f", row |-> 0, col |-> 0]
    /\ jump = NoJump
    /\ pushes = 0
    /\ pops = 0

----------------------------------------------------------------------------
(* The state machine of the index *)

\* CTags(): no tag file given, no list yet; the tag file is in any state
Init ==
    /\ InitBuild
    /\ InitJump
    /\ file \in [exists : BOOLEAN, lines : Files]
    /\ file.exists \/ file.lines = <<>>
    /\ _tags = NoneTags
    /\ pc = "idle"
    /\ all_tags = <<>>
    /\ pos = 0
    /\ tags = <<>>
    /\ result = ""
    /\ query = NoQuery

\* load_file(tags_file) is called
load_file ==
    /\ pc = "idle"
    /\ pc' = "open"
    /\ result' = ""
    /\ UNCHANGED <<file, _tags, all_tags, pos, tags, query>>

\* the file is read and stripped line by line
load_file_open ==
    /\ pc = "open"
    /\ file.exists
    /\ all_tags' = strip_all(file.lines)
    /\ tags' = <<>>
    /\ pos' = 0
    /\ pc' = "parse"
    /\ UNCHANGED <<file, _tags, result, query>>

\* the IOError handler emptying the list before it returns False
load_file_IOError_clears ==
    /\ pc = "open"
    /\ ~file.exists
    /\ pc' = "idle"
    /\ result' = "False"
    /\ _tags' = List(<<>>)
    /\ UNCHANGED <<file, all_tags, pos, tags, query>>

\* "except IOError: return False"
load_file_IOError ==
    /\ pc = "open"
    /\ ~file.exists
    /\ pc' = "idle"
    /\ result' = "False"
    /\ UNCHANGED <<file, _tags, all_tags, pos, tags, query>>

\* the loop putting each record in front of the list instead of at its end
load_file_line_prepend ==
    /\ pc = "parse"
    /\ pos < Len(all_tags)
    /\ LET tag_line == all_tags[pos + 1]
           parsed == parse_line(tag_line)
       IN  IF is_skipped(tag_line)
           THEN /\ pos' = pos + 1
                /\ UNCHANGED <<pc, all_tags, tags, result>>
           ELSE IF parsed.raised = ""
           THEN /\ tags' = <<parsed.tag>> \o tags
                /\ pos' = pos + 1
                /\ UNCHANGED <<pc, all_tags, result>>
           ELSE /\ pc' = "idle"
                /\ result' = parsed.raised
                /\ all_tags' = <<>>
                /\ tags' = <<>>
                /\ pos' = 0
    /\ UNCHANGED <<file, _tags, query>>

\* the loop appending each record to self._tags itself
load_file_line_inplace ==
    /\ pc = "parse"
    /\ pos < Len(all_tags)
    /\ LET tag_line == all_tags[pos + 1]
           parsed == parse_line(tag_line)
       IN  IF is_skipped(tag_line)
           THEN /\ pos' = pos + 1
                /\ UNCHANGED <<pc, all_tags, tags, result, _tags>>
           ELSE IF parsed.raised = ""
           THEN /\ tags' = Append(tags, parsed.tag)
                /\ _tags' = List(Append(tags, parsed.tag))
                /\ pos' = pos + 1
                /\ UNCHANGED <<pc, all_tags, result>>
           ELSE /\ pc' = "idle"
                /\ result' = parsed.raised
                /\ all_tags' = <<>>
                /\ tags' = <<>>
                /\ pos' = 0
                /\ UNCHANGED _tags
    /\ UNCHANGED <<file, query>>

\* one iteration of "for tag_line in all_tags"; an exception ends the call
load_file_line ==
    /\ pc = "parse"
    /\ pos < Len(all_tags)
    /\ LET tag_line == all_tags[pos + 1]
           parsed == parse_line(tag_line)
       IN  IF is_skipped(tag_line)
           THEN /\ pos' = pos + 1
                /\ UNCHANGED <<pc, all_tags, tags, result>>
           ELSE IF parsed.raised = ""
           THEN /\ tags' = Append(tags, parsed.tag)
                /\ pos' = pos + 1
                /\ UNCHANGED <<pc, all_tags, result>>
           ELSE /\ pc' = "idle"
                /\ result' = parsed.raised
                /\ all_tags' = <<>>
                /\ tags' = <<>>
                /\ pos' = 0
    /\ UNCHANGED <<file, _tags, query>>

\* "self._tags = tags", and the call falls off its end
load_file_assign ==
    /\ pc = "parse"
    /\ pos = Len(all_tags)
    /\ _tags' = List(tags)
    /\ pc' = "idle"
    /\ result' = "None"
    /\ all_tags' = <<>>
    /\ tags' = <<>>
    /\ pos' = 0
    /\ UNCHANGED <<file, query>>

\* a call of get_definitions, at any point of a load
get_definitions_call ==
    /\ \E symbol \in Symbols :
          LET r == get_definitions(_tags, symbol)
          IN  query' = [op |-> "get_definitions", arg |-> symbol,
                        raised |-> r.raised, ret |-> r.ret]
    /\ UNCHANGED <<file, _tags, pc, all_tags, pos, tags, result>>

\* a call of autocomplete, at any point of a load
autocomplete_call ==
    /\ \E prefix \in Prefixes :
          LET r == autocomplete(_tags, prefix)
          IN  query' = [op |-> "autocomplete", arg |-> prefix,
                        raised |-> r.raised, ret |-> r.ret]
    /\ UNCHANGED <<file, _tags, pc, all_tags, pos, tags, result>>

\* the tag generator adds a line to the tag file.  load_file reads the whole
\* file in one step and never looks at it again, so a change of the file
\* during a load is the same change made after it
AppendLine ==
    /\ pc = "idle"
    /\ file.exists
    /\ \E l \in Catalogue :
          /\ Append(file.lines, l) \in Files
          /\ file' = [file EXCEPT !.lines = Append(file.lines, l)]
    /\ UNCHANGED <<_tags, pc, all_tags, pos, tags, result, query>>

\* the tag file is removed
Unlink ==
    /\ pc = "idle"
    /\ file.exists
    /\ file' = [exists |-> FALSE, lines |-> <<>>]
    /\ UNCHANGED <<_tags, pc, all_tags, pos, tags, result, query>>

Next ==
    \/ load_file /\ UNCHANGED <<buildVars, jumpVars>>
    \/ load_file_open /\ UNCHANGED <<buildVars, jumpVars>>
    \/ load_file_IOError /\ UNCHANGED <<buildVars, jumpVars>>
    \/ load_file_line /\ UNCHANGED <<buildVars, jumpVars>>
    \/ load_file_assign /\ UNCHANGED <<buildVars, jumpVars>>
    \/ get_definitions_call /\ UNCHANGED <<buildVars, jumpVars>>
    \/ autocomplete_call /\ UNCHANGED <<buildVars, jumpVars>>
    \/ AppendLine /\ UNCHANGED <<buildVars, jumpVars>>
    \/ Unlink /\ UNCHANGED <<buildVars, jumpVars>>

Spec == Init /\ [][Next]_allVars


----------------------------------------------------------------------------
(* Notions the claims are stated in, defined without the operators above *)

\* p is a prefix of s
HasPrefix(s, p) ==
    /\ Len(p) <= Len(s)
    /\ \A i \in 1..Len(p) : s[i] = p[i]

\* a comes strictly before b lexicographically, by code point
LexLess(a, b) ==
    \E k \in 0..Len(a) :
        /\ k <= Len(b)
        /\ \A i \in 1..k : a[i] = b[i]
        /\ \/ k = Len(a) /\ k < Len(b)
           \/ k < Len(a) /\ k < Len(b) /\ Ord(a[k + 1]) < Ord(b[k + 1])

\* the records ts are sorted by name
SortedByName(ts) ==
    \A i, j \in 1..Len(ts) : i < j => ~LexLess(ts[j][1], ts[i][1])

\* out holds elements of ts in the order they have in ts
IsSubsequence(out, ts) ==
    \E f \in [1..Len(out) -> 1..Len(ts)] :
        /\ \A i \in 1..Len(out) : out[i] = ts[f[i]]
        /\ \A i, j \in 1..Len(out) : i < j => f[i] < f[j]

\* the records of ts named symbol, in the order of ts
RECURSIVE Named(_, _)
Named(ts, symbol) ==
    IF ts = <<>> THEN <<>>
    ELSE IF Head(ts)[1] = symbol THEN <<Head(ts)>> \o Named(Tail(ts), symbol)
    ELSE Named(Tail(ts), symbol)

\* the line holds whitespace only
IsBlank(l) == \A i \in 1..Len(l) : l[i] \in Whitespace

\* the first characters of the line that are not whitespace are !_
IsComment(l) ==
    \E i \in 1..(Len(l) - 1) :
        /\ l[i] = "!"
        /\ l[i + 1] = "_"
        /\ \A j \in 1..(i - 1) : l[j] \in Whitespace

\* the lines of a file that are neither blank nor comments, in file order
RECURSIVE Counted(_)
Counted(lines) ==
    IF lines = <<>> THEN <<>>
    ELSE IF IsBlank(Head(lines)) \/ IsComment(Head(lines))
    THEN Counted(Tail(lines))
    ELSE <<Head(lines)>> \o Counted(Tail(lines))

----------------------------------------------------------------------------
(* The claims *)

\* C1: a get_definitions(symbol) made on a loaded collection returns only
\* records named symbol, in the order they have in the collection, and all
\* the records named symbol when the collection is sorted by name.
C1_GetDefinitions ==
    [][(/\ query' # query
        /\ query'.op = "get_definitions"
        /\ query'.arg # NoneValue
        /\ ~_tags.none)
       => LET out == query'.ret.items
              symbol == query'.arg
          IN  /\ query'.raised = ""
              /\ ~query'.ret.none
              /\ \A i \in 1..Len(out) : out[i][1] = symbol
              /\ IsSubsequence(out, _tags.items)
              /\ SortedByName(_tags.items) => out = Named(_tags.items, symbol)
      ]_vars

\* a query for a name that two different records of a sorted collection bear
C1_Witness ==
    /\ query.op = "get_definitions"
    /\ query.arg = <<"a">>
    /\ ~_tags.none
    /\ SortedByName(_tags.items)
    /\ Len(_tags.items) = 3
    /\ Len(query.ret.items) = 2
    /\ query.ret.items[1] # query.ret.items[2]
    /\ query.ret.items = Named(_tags.items, <<"a">>)

\* C2: an autocomplete(prefix) made on a collection sorted by name returns
\* (name, name) pairs in strictly increasing lexicographic order (so sorted
\* and free of duplicates), every name starting with prefix, and every name
\* of the collection that starts with prefix among them.
C2_Autocomplete ==
    [][(/\ query' # query
        /\ query'.op = "autocomplete"
        /\ ~_tags.none
        /\ SortedByName(_tags.items))
       => LET out == query'.ret.items
              prefix == query'.arg
          IN  /\ query'.raised = ""
              /\ ~query'.ret.none
              /\ \A i \in 1..Len(out) : Len(out[i]) = 2 /\ out[i][1] = out[i][2]
              /\ \A i, j \in 1..Len(out) : i < j => LexLess(out[i][1], out[j][1])
              /\ {out[i][1] : i \in 1..Len(out)}
                   = {_tags.items[k][1] : k \in
                        {k \in 1..Len(_tags.items) : HasPrefix(_tags.items[k][1], prefix)}}
      ]_vars

\* a completion of "a" over a sorted collection where the name a is borne
\* twice and ab once
C2_Witness ==
    /\ query.op = "autocomplete"
    /\ query.arg = <<"a">>
    /\ ~_tags.none
    /\ SortedByName(_tags.items)
    /\ Len(Named(_tags.items, <<"a">>)) = 2
    /\ query.ret.items = <<(<<(<<"a">>), (<<"a">>)>>), (<<(<<"a", "b">>), (<<"a", "b">>)>>)>>


\* C3: when a load_file call succeeds, the collection get_definitions(None)
\* returns holds one record per line of the file read that is neither blank
\* nor a comment, in file order (each such line parsed, as the load
\* succeeded); for a file of zero lines that is the empty sequence.
C3_LoadedCollection ==
    [][(pc = "parse" /\ pc' = "idle" /\ result' = "None")
       => LET V == Counted(file.lines)
              got == get_definitions(_tags', NoneValue)
          IN  /\ got.raised = ""
              /\ ~got.ret.none
              /\ Len(got.ret.items) = Len(V)
              /\ \A k \in 1..Len(V) :
                    /\ parse_line(strip(V[k])).raised = ""
                    /\ got.ret.items[k] = parse_line(strip(V[k])).tag
              /\ file.lines = <<>> => got.ret.items = <<>>
      ]_vars

\* a load has just succeeded on a file of three lines, two records apart
C3_Witness ==
    /\ pc = "idle"
    /\ result = "None"
    /\ file.exists
    /\ Len(file.lines) = 3
    /\ ~_tags.none
    /\ Len(_tags.items) = 3
    /\ _tags.items[1] # _tags.items[2]
    /\ _tags.items[3] = parse_line(strip(file.lines[3])).tag


\* the values a Python caller takes for true, among the ways a call ends
Truthy(r) == r = "True"

\* the ways a call ends that are an exception raised to the caller
Exceptions == {"ValueError", "TypeError", "UnicodeDecodeError"}

\* C4: load_file returns a true value when the file was read and the
\* collection replaced, and a false value when the file could not be opened.
C4_LoadReturnsSuccess ==
    [][(pc # "idle" /\ pc' = "idle")
       => /\ _tags' = List(tags) /\ pc = "parse" /\ pos = Len(all_tags)
               => Truthy(result')
          /\ pc = "open" => result' = "False"
      ]_vars

C6_QueriesNeverRaise ==
    query.op # "" => (query.raised = "" /\ ~query.ret.none)

\* the number of tab-delimited parts of a line
NumParts(l) == 1 + Cardinality({i \in 1..Len(l) : l[i] = TAB})

\* the records of the lines among ls that parse, in order
RECURSIVE RecordsOf(_)
RecordsOf(ls) ==
    IF ls = <<>> THEN <<>>
    ELSE IF parse_line(strip(Head(ls))).raised = ""
    THEN <<parse_line(strip(Head(ls))).tag>> \o RecordsOf(Tail(ls))
    ELSE RecordsOf(Tail(ls))

\* C7: a load of a file that holds a line of fewer than 4 tab-delimited parts
\* (neither blank nor a comment), its other lines being well-formed, raises
\* nothing and leaves the records of the other lines, in file order.
C7_ShortLineSkipped ==
    [][(/\ pc = "parse"
        /\ pc' = "idle"
        /\ \E k \in 1..Len(Counted(file.lines)) :
              NumParts(strip(Counted(file.lines)[k])) < 4
        /\ \A k \in 1..Len(Counted(file.lines)) :
              \/ NumParts(strip(Counted(file.lines)[k])) < 4
              \/ parse_line(strip(Counted(file.lines)[k])).raised = "")
       => /\ result' \notin Exceptions
          /\ _tags' = List(RecordsOf(Counted(file.lines)))
      ]_vars

\* the line has 4 parts and a line field that int() does not accept
BadLineField(l) ==
    /\ NumParts(l) >= 4
    /\ LET parts == split(l, TAB, 3)
           fields == parse_fields(parts[4], parts[2])
       IN  /\ W_line \in DOMAIN fields
           /\ int(fields[W_line]).raised # ""

\* C8: a load of a file that holds a line whose line field is not an integer,
\* its other lines being well-formed, raises nothing and loads the records of
\* the other lines (the record of that line skipped, or kept with line 0);
\* a record with the field line:42 has line 42, one without line field line 0.
C8_BadLineFieldRecovered ==
    [][(/\ pc = "parse"
        /\ pc' = "idle"
        /\ \A k \in 1..Len(Counted(file.lines)) :
              \/ BadLineField(strip(Counted(file.lines)[k]))
              \/ parse_line(strip(Counted(file.lines)[k])).raised = "")
       => /\ result' \notin Exceptions
          /\ ~_tags'.none
          /\ IsSubsequence(RecordsOf(Counted(file.lines)), _tags'.items)
          /\ Len(_tags'.items) <= Len(Counted(file.lines))
          /\ \A i \in 1..Len(_tags'.items) :
                LET tag == _tags'.items[i]
                IN  /\ W_line \notin DOMAIN tag[5] => tag[3] = 0
                    /\ (W_line \in DOMAIN tag[5] /\ tag[5][W_line] = <<"4", "2">>)
                          => tag[3] = 42
      ]_vars


\* the position of the first ":" of a token that has one
ColonAt(tok) ==
    CHOOSE c \in 1..Len(tok) :
        tok[c] = ":" /\ \A j \in 1..(c - 1) : tok[j] # ":"

\* the token is key:value, key: or a single character
Decodable(tok) == (\E c \in 1..Len(tok) : tok[c] = ":") \/ Len(tok) = 1

\* the key a decodable token sets
KeyOf(tok) ==
    IF \E c \in 1..Len(tok) : tok[c] = ":"
    THEN SubSeq(tok, 1, ColonAt(tok) - 1)
    ELSE W_kind

\* the value a decodable token gives its key, in a record of the given file
ValueOf(tok, tagfile) ==
    IF \E c \in 1..Len(tok) : tok[c] = ":"
    THEN LET v == SubSeq(tok, ColonAt(tok) + 1, Len(tok))
         IN  IF v # <<>> THEN v
             ELSE IF KeyOf(tok) = W_file THEN tagfile
             ELSE NoneValue
    ELSE tok

\* the mapping the decoding rules give a sequence of tokens: every key a
\* decodable token sets, with the value of the last token that sets it
Decoded(tokens, tagfile) ==
    LET at == {i \in 1..Len(tokens) : Decodable(tokens[i])}
        last(k) == CHOOSE i \in at :
                       /\ KeyOf(tokens[i]) = k
                       /\ \A j \in at : KeyOf(tokens[j]) = k => j <= i
    IN  [k \in {KeyOf(tokens[i]) : i \in at} |-> ValueOf(tokens[last(k)], tagfile)]

\* C9: when the loop of load_file comes to a line of 4 tab-delimited parts,
\* the record it appends has the fields mapping the decoding rules give the
\* tokens of the fourth part, tokens that are neither key:value nor a single
\* character being skipped; and it does append that record, raising nothing,
\* unless the name, file or address is not UTF-8 or the mapping has a line
\* field that is not an integer.
C9_FieldsDecoded ==
    [][(/\ pc = "parse"
        /\ pos < Len(all_tags)
        /\ <<pc, pos, tags>>' # <<pc, pos, tags>>
        /\ ~IsBlank(all_tags[pos + 1])
        /\ ~IsComment(all_tags[pos + 1])
        /\ NumParts(all_tags[pos + 1]) >= 4)
       => LET parts == split(all_tags[pos + 1], TAB, 3)
              tokens == split(parts[4], TAB, -1)
              fields == Decoded(tokens, parts[2])
              produced == /\ \A p \in 1..3 : decode(parts[p]).raised = ""
                          /\ W_line \in DOMAIN fields
                                => int(fields[W_line]).raised = ""
          IN  /\ parse_fields(parts[4], parts[2]) = fields
              /\ produced =>
                    /\ pc' = "parse"
                    /\ Len(tags') = Len(tags) + 1
                    /\ tags'[Len(tags')][5] = fields
                    /\ SubSeq(tags', 1, Len(tags)) = tags
      ]_vars

\* the loop has appended the record of the line  ab f x file: bad k : the
\* empty file: took the record's file, bad was skipped, k became the kind
C9_Witness ==
    /\ pc = "parse"
    /\ pos > 0
    /\ all_tags[pos] = strip(LineAB)
    /\ tags # <<>>
    /\ tags[Len(tags)][1] = <<"a", "b">>
    /\ tags[Len(tags)][5] = [k \in {W_file, W_kind} |->
                                IF k = W_file THEN <<"f">> ELSE <<"k">>]

\* C10: the collection changes in one step only, the last of a load that
\* parsed every line of the file, and changes to the complete list of that
\* file's records; so a query made at any step of a load answers from the
\* complete previous collection, and a load that ends in False or in an
\* exception leaves the collection as it was.
C10_AtomicReplace ==
    [][/\ _tags' # _tags
          => /\ pc = "parse"
             /\ pos = Len(all_tags)
             /\ pc' = "idle"
             /\ result' = "None"
             /\ Len(Counted(file.lines)) = Len(RecordsOf(Counted(file.lines)))
             /\ _tags' = List(RecordsOf(Counted(file.lines)))
       /\ (query' # query /\ query'.op = "get_definitions")
          => /\ _tags' = _tags
             /\ query'.arg = NoneValue => query'.ret = _tags
             /\ (query'.arg # NoneValue /\ ~_tags.none)
                   => IsSubsequence(query'.ret.items, _tags.items)
       /\ (query' # query /\ query'.op = "autocomplete" /\ ~_tags.none)
          => /\ _tags' = _tags
             /\ \A i \in 1..Len(query'.ret.items) :
                   \E k \in 1..Len(_tags.items) :
                      _tags.items[k][1] = query'.ret.items[i][1]
       /\ (pc # "idle" /\ pc' = "idle" /\ result' # "None")
          => _tags' = _tags
      ]_vars

\* a load is part way through a file of three records, its local list holds
\* one of them, and the last query returned the whole previous collection of
\* two records
C10_Witness ==
    /\ pc = "parse"
    /\ Len(all_tags) = 3
    /\ pos = 1
    /\ Len(tags) = 1
    /\ ~_tags.none
    /\ Len(_tags.items) = 2
    /\ _tags.items[1] # _tags.items[2]
    /\ query.op = "get_definitions"
    /\ query.arg = NoneValue
    /\ query.ret = _tags


----------------------------------------------------------------------------
(* The rebuild of the tags: the threaded wrapper around build_tags, the     *)
(* worker thread it starts, and the callback build_is_done.  A thread runs  *)
(* build_tags in the stages find, ctags, construct and loading (the load of *)
(* the index it constructs is the load_file of the index above), then the   *)
(* wrapper's own finally.                                                   *)

\* longest tag file the ctags command writes
MaxBuildLines == 1

\* the tag files the ctags command may write: a line that loads, and a line
\* of three parts on which the load raises
BuildFiles == SeqsUpTo({LineA, LineShort}, MaxBuildLines)

\* threads that have been started and have not yet run the wrapper's finally
Active == {t \in Threads : worker[t].stage \notin {"none", "done"}}

\* the wrapper called with no test of func.running
threaded_unguarded ==
    /\ requests < MaxRequests
    /\ requests' = requests + 1
    /\ \E silent \in BOOLEAN :
          /\ running' = 1
          /\ worker' = [worker EXCEPT ![requests + 1] =
                           [stage |-> "find", silent |-> silent, raised |-> FALSE]]
          /\ UNCHANGED status
    /\ UNCHANGED <<timeouts, ctags, vars, jumpVars>>

\* a call of the wrapped build_tags, on the main thread: "if not
\* func.running" starts a thread, else the message is shown.  The worker only
\* ever writes 0 to the flag, as its last step, so the test and the start
\* are one step
threaded ==
    /\ requests < MaxRequests
    /\ requests' = requests + 1
    /\ \E silent \in BOOLEAN :
          IF running = 0
          THEN /\ running' = 1
               /\ worker' = [worker EXCEPT ![requests + 1] =
                                [stage |-> "find", silent |-> silent, raised |-> FALSE]]
               /\ UNCHANGED status
          ELSE /\ status' = "Build process is running already"
               /\ UNCHANGED <<running, worker>>
    /\ UNCHANGED <<timeouts, ctags, vars, jumpVars>>

\* build_tags: the find command; a non-zero exit raises EnvironmentError
build_find(t) ==
    /\ worker[t].stage = "find"
    /\ \E ret \in {0, 1} :
          worker' = [worker EXCEPT ![t] =
                        IF ret = 0 THEN [@ EXCEPT !.stage = "ctags"]
                        ELSE [@ EXCEPT !.stage = "finally", !.raised = TRUE]]
    /\ UNCHANGED <<running, requests, timeouts, ctags, status, vars, jumpVars>>

\* build_tags: the ctags command, which writes the tag file; a non-zero exit
\* raises EnvironmentError
build_ctags(t) ==
    /\ worker[t].stage = "ctags"
    /\ \/ /\ \E lines \in BuildFiles : file' = [exists |-> TRUE, lines |-> lines]
          /\ worker' = [worker EXCEPT ![t].stage = "construct"]
       \/ /\ worker' = [worker EXCEPT ![t].stage = "finally", ![t].raised = TRUE]
          /\ UNCHANGED file
    /\ UNCHANGED <<running, requests, timeouts, ctags, status, jumpVars>>
    /\ UNCHANGED <<_tags, pc, all_tags, pos, tags, result, query>>

\* build_tags: "tags = CTags(tags_file=ctags['out'], ...)": __init__ sets
\* _tags to None and calls load_file, whose result it drops
build_construct(t) ==
    /\ worker[t].stage = "construct"
    /\ pc = "idle"
    /\ _tags' = NoneTags
    /\ pc' = "open"
    /\ result' = ""
    /\ worker' = [worker EXCEPT ![t].stage = "loading"]
    /\ UNCHANGED <<file, all_tags, pos, tags, query>>
    /\ UNCHANGED <<running, requests, timeouts, ctags, status, jumpVars>>

\* load_file returned (None or False alike): build_tags returns
\* (True, tags, silent, timing) and the wrapper hands build_is_done with
\* these arguments to sublime.set_timeout
build_return(t) ==
    /\ worker[t].stage = "loading"
    /\ pc = "idle"
    /\ result \in {"None", "False"}
    /\ timeouts' = Append(timeouts, [is_ok |-> TRUE,
                                     tags |-> [isNone |-> FALSE, tags |-> _tags],
                                     silent |-> worker[t].silent])
    /\ worker' = [worker EXCEPT ![t].stage = "finally"]
    /\ UNCHANGED <<running, requests, ctags, status, vars, jumpVars>>

\* load_file raised: the exception leaves __init__, build_tags and the try
\* block of the wrapper; build_is_done is not called
build_raise(t) ==
    /\ worker[t].stage = "loading"
    /\ pc = "idle"
    /\ result \notin {"", "None", "False"}
    /\ worker' = [worker EXCEPT ![t].stage = "finally", ![t].raised = TRUE]
    /\ UNCHANGED <<running, requests, timeouts, ctags, status, vars, jumpVars>>

\* the flag reset after the try block instead of in a finally clause
run_finally_not_on_raise(t) ==
    /\ worker[t].stage = "finally"
    /\ running' = IF worker[t].raised THEN running ELSE 0
    /\ worker' = [worker EXCEPT ![t].stage = "done"]
    /\ UNCHANGED <<requests, timeouts, ctags, status, vars, jumpVars>>

\* "finally: func.running = 0", and the thread ends
run_finally(t) ==
    /\ worker[t].stage = "finally"
    /\ running' = 0
    /\ worker' = [worker EXCEPT ![t].stage = "done"]
    /\ UNCHANGED <<requests, timeouts, ctags, status, vars, jumpVars>>

\* build_is_done(is_ok, tags, silent, timing), run by the main thread
build_is_done ==
    /\ timeouts # <<>>
    /\ LET call == Head(timeouts)
       IN  IF call.is_ok
           THEN /\ ctags' = call.tags
                /\ status' = IF call.silent THEN status ELSE "Tags rebuilded"
           ELSE /\ status' = "Tags NOT rebuilded! See console for more information."
                /\ UNCHANGED ctags
    /\ timeouts' = Tail(timeouts)
    /\ UNCHANGED <<running, worker, requests, vars, jumpVars>>

\* the steps of a worker thread
WorkerStep ==
    \/ \E t \in Threads : build_find(t)
    \/ \E t \in Threads : build_ctags(t)
    \/ \E t \in Threads : build_construct(t)
    \/ load_file_open /\ UNCHANGED <<buildVars, jumpVars>>
    \/ load_file_IOError /\ UNCHANGED <<buildVars, jumpVars>>
    \/ load_file_line /\ UNCHANGED <<buildVars, jumpVars>>
    \/ load_file_assign /\ UNCHANGED <<buildVars, jumpVars>>
    \/ \E t \in Threads : build_return(t)
    \/ \E t \in Threads : build_raise(t)
    \/ \E t \in Threads : run_finally(t)

\* the plugin just imported, no index built yet, the tag file absent or left
\* by an earlier run
InitRebuild ==
    /\ InitBuild
    /\ InitJump
    /\ file \in [exists : BOOLEAN, lines : BuildFiles]
    /\ file.exists \/ file.lines = <<>>
    /\ _tags = NoneTags
    /\ pc = "idle"
    /\ all_tags = <<>>
    /\ pos = 0
    /\ tags = <<>>
    /\ result = ""
    /\ query = NoQuery

NextRebuild ==
    \/ threaded
    \/ WorkerStep
    \/ build_is_done
    \/ Unlink /\ UNCHANGED <<buildVars, jumpVars>>

SpecRebuild == InitRebuild /\ [][NextRebuild]_allVars

\* a step of the load the worker runs, told by what it does to the position
\* of the call: the file is opened or the open fails, a line is taken, or
\* the call ends.  Among the steps of NextRebuild these are the steps
\* load_file_open, load_file_IOError, load_file_line and load_file_assign,
\* and one of them is possible whenever a load is under way
load_file_step ==
    \/ pc = "open" /\ pc' \in {"parse", "idle"} /\ pos' = 0
    \/ pc = "parse" /\ pc' = "parse" /\ pos' = pos + 1
    \/ pc = "parse" /\ pc' = "idle" /\ pos' = 0

\* the steps of a worker thread outside the load
build_tags_step ==
    \/ \E t \in Threads : build_find(t)
    \/ \E t \in Threads : build_ctags(t)
    \/ \E t \in Threads : build_construct(t)
    \/ \E t \in Threads : build_return(t)
    \/ \E t \in Threads : build_raise(t)
    \/ \E t \in Threads : run_finally(t)

\* the worker thread is scheduled, in build_tags and in the load alike, and
\* the commands it waits for end
SpecRebuildFair ==
    /\ SpecRebuild
    /\ WF_allVars(build_tags_step)
    /\ WF_<<pc, pos>>(load_file_step)

\* build_tags_step and load_file_step are together the steps of the worker
WorkerStepsTold ==
    [][(build_tags_step \/ load_file_step) <=> WorkerStep]_allVars

----------------------------------------------------------------------------
(* Claims about the rebuild *)

\* the threads a step starts
Started == {t \in Threads : worker[t].stage = "none" /\ worker'[t].stage # "none"}

\* a step that is a call of the wrapped build_tags
IsRequest == requests' = requests + 1

\* C11: at most one build_tags execution is in flight at any time; a rebuild
\* request made while one is in flight starts no thread, changes nothing of
\* the threads or of the callbacks waiting, and shows the notice "Build
\* process is running already"; a request made while none is in flight starts
\* exactly one thread; and no other step starts a thread, so a rejected
\* request is never run later.
C11_SingleFlight ==
    [][ /\ Cardinality(Active) <= 1
        /\ Cardinality(Active') <= 1
        /\ (IsRequest /\ Active # {}) =>
              /\ Started = {}
              /\ worker' = worker
              /\ timeouts' = timeouts
              /\ status' = "Build process is running already"
        /\ (IsRequest /\ Active = {}) =>
              /\ Cardinality(Started) = 1
              /\ Active' = Started
        /\ ~IsRequest => Started = {}
      ]_allVars

\* a request was rejected while a build was in flight, that build ended, and
\* a later request started a second one
C11_Witness ==
    /\ status = "Build process is running already"
    /\ \E t \in Threads : worker[t].stage = "done"
    /\ Cardinality(Active) = 1
    /\ requests = 3

\* C12: whenever build_is_done has installed an index as the global ctags,
\* the load of that index completed and its collection is a list of records,
\* never the None of an index that was not loaded.
C12_InstalledIndexLoaded ==
    ~ctags.isNone => ~ctags.tags.none

\* C13: the guard of the wrapper is always released: once a build has been
\* started, whether build_tags returns or raises (the find or the ctags
\* command fails, the load of the index raises), the flag running goes back
\* to 0, after which a request is accepted again.
C13_GuardReleased ==
    (running = 1) ~> (running = 0)

\* a build that raised has ended and the flag is back at 0
C13_Witness ==
    /\ running = 0
    /\ \E t \in Threads : worker[t].stage = "done" /\ worker[t].raised

----------------------------------------------------------------------------
(* The jump history: the select_definition callbacks of the two commands    *)
(* that jump to a definition, and the command that jumps back.              *)

\* self._definitions, the records the quick panel lists: name, file, line
Definitions == << <<"a", "g", 3>>, <<"a", "h", 1>> >>

\* what the quick panel may hand to select_definition: -1 when it is
\* cancelled, else an index into self._definitions, from 0
Choices == {-1} \cup (0..(Len(Definitions) - 1))

\* places in the file being edited the user may move the caret to
Places == {[file |-> "f", row |-> 0, col |-> 0], [file |-> "f", row |-> 1, col |-> 2]}

\* goto_file: open_file("%s:%d:%d", ENCODED_POSITION) puts the caret in the
\* file at the row and column given, which it counts from 1
goto_file(filename, row, col) ==
    [file |-> filename,
     row |-> IF row > 0 THEN row - 1 ELSE 0,
     col |-> IF col > 0 THEN col - 1 ELSE 0]

\* the body of both select_definition callbacks
select_definition(cmd, choose) ==
    /\ jump.n < MaxJumps
    /\ jump' = [n |-> jump.n + 1, cmd |-> cmd, choose |-> choose]
    /\ IF choose = -1
       THEN UNCHANGED <<history, cursor, pushes>>
       ELSE /\ history' = Append(history, <<cursor.file, cursor.row + 1, cursor.col + 1>>)
            /\ pushes' = pushes + 1
            /\ cursor' = goto_file(Definitions[choose + 1][2], Definitions[choose + 1][3], 0)
    /\ UNCHANGED <<pops, vars, buildVars>>

\* SerpentariumJumpToDefinition.select_definition
JumpToDefinition_select_definition ==
    \E choose \in Choices : select_definition("JumpToDefinition", choose)

\* SerpentariumSearchDefinition.select_definition
SearchDefinition_select_definition ==
    \E choose \in Choices : select_definition("SearchDefinition", choose)

\* a jump back that takes the oldest entry of the history
JumpBack_run_oldest ==
    /\ jump.n < MaxJumps
    /\ jump' = [n |-> jump.n + 1, cmd |-> "JumpBack", choose |-> 0]
    /\ IF history = <<>>
       THEN /\ status' = "Jump history is empty"
            /\ UNCHANGED <<history, cursor, pops>>
       ELSE /\ history' = Tail(history)
            /\ pops' = pops + 1
            /\ cursor' = goto_file(history[1][1], history[1][2], history[1][3])
            /\ UNCHANGED status
    /\ UNCHANGED <<pushes, vars, running, worker, requests, timeouts, ctags>>

\* SerpentariumJumpBack.run: "filename, row, col = history.pop()"
JumpBack_run ==
    /\ jump.n < MaxJumps
    /\ jump' = [n |-> jump.n + 1, cmd |-> "JumpBack", choose |-> 0]
    /\ IF history = <<>>
       THEN /\ status' = "Jump history is empty"
            /\ UNCHANGED <<history, cursor, pops>>
       ELSE LET item == history[Len(history)]
            IN  /\ history' = SubSeq(history, 1, Len(history) - 1)
                /\ pops' = pops + 1
                /\ cursor' = goto_file(item[1], item[2], item[3])
                /\ UNCHANGED status
    /\ UNCHANGED <<pushes, vars, running, worker, requests, timeouts, ctags>>

\* the user moves the caret
move_caret ==
    /\ \E place \in Places : cursor' = place
    /\ cursor' # cursor
    /\ UNCHANGED <<history, jump, pushes, pops, vars, buildVars>>

\* the plugin just imported, an empty history, no index in use
InitJumps ==
    /\ InitBuild
    /\ InitJump
    /\ file = [exists |-> FALSE, lines |-> <<>>]
    /\ _tags = NoneTags
    /\ pc = "idle"
    /\ all_tags = <<>>
    /\ pos = 0
    /\ tags = <<>>
    /\ result = ""
    /\ query = NoQuery

NextJumps ==
    \/ JumpToDefinition_select_definition
    \/ SearchDefinition_select_definition
    \/ JumpBack_run
    \/ move_caret

SpecJumps == InitJumps /\ [][NextJumps]_allVars

----------------------------------------------------------------------------
(* Claims about the jump history *)

\* a step that is the run of a jump command
Ran(cmd) == jump'.n = jump.n + 1 /\ jump'.cmd = cmd

\* a step that is a select_definition callback
Selected == Ran("JumpToDefinition") \/ Ran("SearchDefinition")

\* the entry a jump from the place pushes, and the place an entry stands for
EntryOf(place) == <<place.file, place.row + 1, place.col + 1>>

\* C14: the jump history is a stack.  A select_definition with a choice other
\* than -1 pushes the place the caret was at and nothing else; one with -1
\* pushes nothing and moves nothing; a jump back on a history that is not
\* empty removes its last entry, the one pushed last and not yet popped, and
\* puts the caret back at the place that entry was pushed from; a jump back
\* on an empty history moves nothing and leaves the history empty; no other
\* step changes the history; and the length of the history is always the
\* number of pushes less the number of pops.
C14_JumpHistory ==
    [][ /\ Len(history) = pushes - pops
        /\ Len(history') = pushes' - pops'
        /\ (Selected /\ jump'.choose # -1) =>
              /\ history' = Append(history, EntryOf(cursor))
              /\ pushes' = pushes + 1
              /\ pops' = pops
        /\ (Selected /\ jump'.choose = -1) =>
              /\ history' = history
              /\ cursor' = cursor
              /\ pushes' = pushes
              /\ pops' = pops
        /\ (Ran("JumpBack") /\ history # <<>>) =>
              /\ history' = SubSeq(history, 1, Len(history) - 1)
              /\ EntryOf(cursor') = history[Len(history)]
              /\ pushes' = pushes
              /\ pops' = pops + 1
        /\ (Ran("JumpBack") /\ history = <<>>) =>
              /\ history' = <<>>
              /\ cursor' = cursor
              /\ pushes' = pushes
              /\ pops' = pops
        /\ jump'.n = jump.n => history' = history
      ]_allVars

\* two jumps, from the file edited and then from the first definition, and a
\* jump back: the caret is back at the first definition, and the entry of
\* the first jump is still in the history
C14_Witness ==
    /\ jump.cmd = "JumpBack"
    /\ pushes = 2
    /\ pops = 1
    /\ cursor.file = "g"
    /\ Len(history) = 1
    /\ history[1][1] = "f"

=============================================================================
